---- MODULE Spec2Model ----
(***************************************************************************)
(* A model of stock_quotes_lib/stock_quotes.py: the module-level adapter   *)
(* (_client, _client_api_key), the adapter's series cache, and the three   *)
(* public operations lookup, get_min and get_max.                          *)
(*                                                                         *)
(* The remote provider is the environment: every request the adapter       *)
(* issues is answered by any response of a bounded set (a failure of one   *)
(* of the kinds the code tells apart, or a JSON payload), so the provider  *)
(* may change its answer between any two requests.                         *)
(*                                                                         *)
(* query, result, fetches and fresh observe the last call: what was        *)
(* asked, what came back, which requests went to the provider, and whether *)
(* the call found the cache empty.  They do not influence the program.     *)
(*                                                                         *)
(* threads holds, for callers that run get_daily_time_series concurrently, *)
(* each caller's position in the method and its local frame; it is empty   *)
(* where calls run one at a time.                                          *)
(***************************************************************************)
EXTENDS Integers, Sequences, FiniteSets, TLC

VARIABLES env, client, client_api_key, query, result, fetches, fresh, threads

vars == <<env, client, client_api_key, query, result, fetches, fresh, threads>>

----------------------------------------------------------------------------
(* Bounds of the model.                                                    *)

\* Trading days 1..MaxDate exist in the slice that exercises the cache.
MaxDate == 2
\* Window lengths 1..MaxN are asked for, beside the boundary values.
MaxN == 2
\* Trading days 1..WinDates and price levels 1..WinLevels in the slice that
\* exercises the window computations.
WinDates == 3
WinLevels == 2

(* Program constants.                                                      *)

\* outputsize = "compact" if n <= 100 else "full"
RecentLimit == 100

----------------------------------------------------------------------------
(* Python values.                                                          *)

None == "None"

\* Truthiness of an Optional[str]: None and "" are falsy.
Truthy(v) == v # None /\ v # ""

Range(s) == {s[i] : i \in DOMAIN s}

EmptyMap == [k \in {} |-> 0]

----------------------------------------------------------------------------
(* Symbols: strings, as sequences of letters; str.upper().                 *)

UpperChar(c) ==
    CASE c = "a" -> "A"
      [] c = "b" -> "B"
      [] OTHER   -> c

upper(symbol) == [i \in DOMAIN symbol |-> UpperChar(symbol[i])]

----------------------------------------------------------------------------
(* Dates.  A trading day is a positive integer (later days are larger).    *)
(* A date string is <<day, form>>: "iso" is the zero-padded YYYY-MM-DD,    *)
(* "unpadded" the same date without the zero padding (2025-3-5), "junk"    *)
(* anything strptime rejects.                                              *)

BadDate == 0

Iso(d) == <<d, "iso">>

\* datetime.strptime(date, "%Y-%m-%d"): accepts padded and unpadded fields.
strptime(date) ==
    IF date[2] \in {"iso", "unpadded"} THEN date[1] ELSE BadDate

\* datetime.strftime("%Y-%m-%d"): always zero-padded.
strftime(day) == Iso(day)

\* pd.to_datetime on an index label of the payload.
to_datetime(label) == label[1]

----------------------------------------------------------------------------
(* Numbers.  The payload carries every number as a decimal string, here a  *)
(* sequence of digit characters.                                           *)

Digits == <<"0", "1", "2", "3", "4", "5", "6", "7", "8", "9">>

DigitValue(c) == (CHOOSE i \in DOMAIN Digits : Digits[i] = c) - 1

\* The decimal string of a natural number.
RECURSIVE Decimal(_)
Decimal(x) ==
    IF x < 10 THEN <<Digits[x + 1]>>
    ELSE Decimal(x \div 10) \o <<Digits[(x % 10) + 1]>>

\* pd.to_numeric on a decimal string.
RECURSIVE to_numeric(_)
to_numeric(s) ==
    IF Len(s) = 1 THEN DigitValue(s[1])
    ELSE 10 * to_numeric(SubSeq(s, 1, Len(s) - 1)) + DigitValue(s[Len(s)])

\* One day's record as the provider sends it.
RawBar(o, h, l, c, v) ==
    ("1. open" :> Decimal(o)) @@ ("2. high" :> Decimal(h)) @@
    ("3. low" :> Decimal(l)) @@ ("4. close" :> Decimal(c)) @@
    ("5. volume" :> Decimal(v))

----------------------------------------------------------------------------
(* Payloads: the "Time Series (Daily)" object of a response, a JSON object *)
(* from date strings to raw bars.  bars[d] is the set of bars a payload    *)
(* may carry for day d.                                                    *)

Payloads(days, bars) ==
    UNION { { p \in [ {Iso(d) : d \in S} -> UNION {bars[d] : d \in S} ] :
                \A d \in S : p[Iso(d)] \in bars[d] } : S \in SUBSET days }

\* The kinds of answer get_daily_time_series tells apart, in the order it
\* meets them.
FailKinds == {"transport", "status", "not_json", "error_message", "no_time_series"}

Failure(kind) == [kind |-> kind, payload |-> EmptyMap]

Success(p) == [kind |-> "ok", payload |-> p]

Responses(P) == {Failure(k) : k \in FailKinds} \cup {Success(p) : p \in P}

\* Stands for the answer to a request that is never issued.
Unasked == Failure("unasked")

----------------------------------------------------------------------------
(* Results of a call: a returned value or a raised exception, named by its *)
(* Python class and the place that raises it.                              *)

Return(v) == [ok |-> TRUE, value |-> v]

Raise(exc, site) == [ok |-> FALSE, exc |-> exc, site |-> site]

----------------------------------------------------------------------------
(* AlphaVantageClient                                                      *)

NoClient == [live |-> FALSE, api_key |-> None, cache |-> EmptyMap]

\* Mutant: the constructor does not check that a key was found.
AlphaVantageClient_unchecked(api_key) ==
    [ok |-> TRUE,
     client |-> [live |-> TRUE,
                 api_key |-> IF Truthy(api_key) THEN api_key ELSE env,
                 cache |-> EmptyMap]]

\* AlphaVantageClient.__init__
AlphaVantageClient(api_key) ==
    LET key == IF Truthy(api_key) THEN api_key ELSE env
    IN  IF ~Truthy(key)
        THEN [ok |-> FALSE, err |-> Raise("ValueError", "api_key_required")]
        ELSE [ok |-> TRUE,
              client |-> [live |-> TRUE, api_key |-> key, cache |-> EmptyMap]]

\* Mutant: the cache key leaves the resolution out.
cache_key_without_size(symbol, outputsize) == <<upper(symbol), "daily">>

\* Mutant: the cache key keeps the symbol as the caller spelled it.
cache_key_as_spelled(symbol, outputsize) == <<symbol, outputsize>>

\* cache_key = f"{symbol.upper()}_daily_{outputsize}"
cache_key(symbol, outputsize) == <<upper(symbol), outputsize>>

\* Mutant: the rename maps "2. high" and "3. low" to each other's column.
Row_swapped(label, raw) ==
    [date   |-> to_datetime(label),
     open   |-> to_numeric(raw["1. open"]),
     high   |-> to_numeric(raw["3. low"]),
     low    |-> to_numeric(raw["2. high"]),
     close  |-> to_numeric(raw["4. close"]),
     volume |-> to_numeric(raw["5. volume"])]

\* One row of the DataFrame: the index label parsed, the columns renamed and
\* converted to numbers.
Row(label, raw) ==
    [date   |-> to_datetime(label),
     open   |-> to_numeric(raw["1. open"]),
     high   |-> to_numeric(raw["2. high"]),
     low    |-> to_numeric(raw["3. low"]),
     close  |-> to_numeric(raw["4. close"]),
     volume |-> to_numeric(raw["5. volume"])]

\* Mutant: the index is sorted oldest first.
RECURSIVE sort_index_asc(_)
sort_index_asc(rows) ==
    IF rows = {} THEN <<>>
    ELSE LET oldest == CHOOSE r \in rows : \A q \in rows : q.date >= r.date
         IN  <<oldest>> \o sort_index_asc(rows \ {oldest})

\* df.sort_index(ascending=False): newest first.
RECURSIVE sort_index_desc(_)
sort_index_desc(rows) ==
    IF rows = {} THEN <<>>
    ELSE LET newest == CHOOSE r \in rows : \A q \in rows : q.date <= r.date
         IN  <<newest>> \o sort_index_desc(rows \ {newest})

\* Lines 82-102: the payload as a DataFrame.
DataFrame(payload) ==
    sort_index_desc({Row(label, payload[label]) : label \in DOMAIN payload})

\* The exception a response that cannot be used raises, or None.
FetchError(resp) ==
    CASE resp.kind \in {"transport", "unasked"} ->
             Raise("RequestException", "request_failed")
      [] resp.kind = "status"         -> Raise("Exception", "status_code")
      [] resp.kind = "not_json"       -> Raise("JSONDecodeError", "not_json")
      [] resp.kind = "error_message"  -> Raise("Exception", "error_message")
      [] resp.kind = "no_time_series" -> Raise("Exception", "unexpected_format")
      [] resp.kind = "ok" /\ DOMAIN resp.payload = {} ->
             Raise("KeyError", "empty_time_series")
      [] OTHER -> Return(None)

\* Mutant: the DataFrame is returned without being stored (line 105 lost).
get_daily_time_series_unstored(c, symbol, outputsize, resp) ==
    LET k == cache_key(symbol, outputsize)
        request == [symbol |-> symbol, outputsize |-> outputsize,
                    response |-> resp, seen |-> c.cache]
    IN  IF k \in DOMAIN c.cache
        THEN [client |-> c, out |-> Return(c.cache[k]), log |-> <<>>]
        ELSE IF ~FetchError(resp).ok
        THEN [client |-> c, out |-> FetchError(resp), log |-> <<request>>]
        ELSE [client |-> c, out |-> Return(DataFrame(resp.payload)),
              log |-> <<request>>]

\* Mutant: the cache entry is installed before the response is examined, so
\* a failed request leaves an empty frame under the key.
get_daily_time_series_early_store(c, symbol, outputsize, resp) ==
    LET k == cache_key(symbol, outputsize)
        request == [symbol |-> symbol, outputsize |-> outputsize,
                    response |-> resp, seen |-> c.cache]
    IN  IF k \in DOMAIN c.cache
        THEN [client |-> c, out |-> Return(c.cache[k]), log |-> <<>>]
        ELSE IF ~FetchError(resp).ok
        THEN [client |-> [c EXCEPT !.cache = (k :> <<>>) @@ c.cache],
              out |-> FetchError(resp), log |-> <<request>>]
        ELSE LET df == DataFrame(resp.payload)
             IN  [client |-> [c EXCEPT !.cache = (k :> df) @@ c.cache],
                  out |-> Return(df), log |-> <<request>>]

\* Mutant: storing a frame rebuilds the cache with that entry alone.
get_daily_time_series_reset(c, symbol, outputsize, resp) ==
    LET k == cache_key(symbol, outputsize)
        request == [symbol |-> symbol, outputsize |-> outputsize,
                    response |-> resp, seen |-> c.cache]
    IN  IF k \in DOMAIN c.cache
        THEN [client |-> c, out |-> Return(c.cache[k]), log |-> <<>>]
        ELSE IF ~FetchError(resp).ok
        THEN [client |-> c, out |-> FetchError(resp), log |-> <<request>>]
        ELSE LET df == DataFrame(resp.payload)
             IN  [client |-> [c EXCEPT !.cache = (k :> df)],
                  out |-> Return(df), log |-> <<request>>]

\* Mutant: a cached full series answers a call for the compact one.
get_daily_time_series_full_serves(c, symbol, outputsize, resp) ==
    LET k == cache_key(symbol, outputsize)
        request == [symbol |-> symbol, outputsize |-> outputsize,
                    response |-> resp, seen |-> c.cache]
    IN  IF k \in DOMAIN c.cache
        THEN [client |-> c, out |-> Return(c.cache[k]), log |-> <<>>]
        ELSE IF cache_key(symbol, "full") \in DOMAIN c.cache
        THEN [client |-> c, out |-> Return(c.cache[cache_key(symbol, "full")]),
              log |-> <<>>]
        ELSE IF ~FetchError(resp).ok
        THEN [client |-> c, out |-> FetchError(resp), log |-> <<request>>]
        ELSE LET df == DataFrame(resp.payload)
             IN  [client |-> [c EXCEPT !.cache = (k :> df) @@ c.cache],
                  out |-> Return(df), log |-> <<request>>]

\* Mutant: a request that fails empties the cache.
get_daily_time_series_clearing(c, symbol, outputsize, resp) ==
    LET k == cache_key(symbol, outputsize)
        request == [symbol |-> symbol, outputsize |-> outputsize,
                    response |-> resp, seen |-> c.cache]
    IN  IF k \in DOMAIN c.cache
        THEN [client |-> c, out |-> Return(c.cache[k]), log |-> <<>>]
        ELSE IF ~FetchError(resp).ok
        THEN [client |-> [c EXCEPT !.cache = EmptyMap],
              out |-> FetchError(resp), log |-> <<request>>]
        ELSE LET df == DataFrame(resp.payload)
             IN  [client |-> [c EXCEPT !.cache = (k :> df) @@ c.cache],
                  out |-> Return(df), log |-> <<request>>]

\* Mutant: a request that fails is issued a second time.
get_daily_time_series_retrying(c, symbol, outputsize, resp) ==
    LET k == cache_key(symbol, outputsize)
        request == [symbol |-> symbol, outputsize |-> outputsize,
                    response |-> resp, seen |-> c.cache]
    IN  IF k \in DOMAIN c.cache
        THEN [client |-> c, out |-> Return(c.cache[k]), log |-> <<>>]
        ELSE IF ~FetchError(resp).ok
        THEN [client |-> c, out |-> FetchError(resp), log |-> <<request, request>>]
        ELSE LET df == DataFrame(resp.payload)
             IN  [client |-> [c EXCEPT !.cache = (k :> df) @@ c.cache],
                  out |-> Return(df), log |-> <<request>>]

\* What a call of get_daily_time_series on adapter c yields when the
\* provider would answer resp: the adapter afterwards, the DataFrame or the
\* exception, and the request issued (none on a cache hit).
get_daily_time_series(c, symbol, outputsize, resp) ==
    LET k == cache_key(symbol, outputsize)
        request == [symbol |-> symbol, outputsize |-> outputsize,
                    response |-> resp, seen |-> c.cache]
    IN  IF k \in DOMAIN c.cache
        THEN [client |-> c, out |-> Return(c.cache[k]), log |-> <<>>]
        ELSE IF ~FetchError(resp).ok
        THEN [client |-> c, out |-> FetchError(resp), log |-> <<request>>]
        ELSE LET df == DataFrame(resp.payload)
             IN  [client |-> [c EXCEPT !.cache = (k :> df) @@ c.cache],
                  out |-> Return(df), log |-> <<request>>]

----------------------------------------------------------------------------
(* Module-level adapter.                                                   *)

\* Mutant: a new adapter inherits the cache of the one it replaces.
get_client_keeping_cache(api_key) ==
    IF ~client.live \/ (api_key # None /\ api_key # client_api_key)
    THEN LET made == AlphaVantageClient(api_key)
         IN  IF made.ok
             THEN [ok |-> TRUE,
                   client |-> [made.client EXCEPT !.cache = client.cache],
                   client_api_key |-> api_key]
             ELSE [ok |-> FALSE, err |-> made.err]
    ELSE [ok |-> TRUE, client |-> client, client_api_key |-> client_api_key]

\* _get_client: the adapter to use and the globals afterwards, or the
\* exception of the constructor (the globals are then left as they are).
get_client(api_key) ==
    IF ~client.live \/ (api_key # None /\ api_key # client_api_key)
    THEN LET made == AlphaVantageClient(api_key)
         IN  IF made.ok
             THEN [ok |-> TRUE, client |-> made.client, client_api_key |-> api_key]
             ELSE [ok |-> FALSE, err |-> made.err]
    ELSE [ok |-> TRUE, client |-> client, client_api_key |-> client_api_key]

----------------------------------------------------------------------------
(* The public operations.  Each yields the globals after the call, what    *)
(* the call returns or raises, and the requests it issued.  r1 and r2 are  *)
(* the provider's answers to the first and the second request of the call. *)

Outcome(c, k, res, log) ==
    [client |-> c, client_api_key |-> k, result |-> res, fetches |-> log]

\* Mutant: the index is formatted without zero padding.
df_dates_unpadded(df) == [i \in DOMAIN df |-> <<df[i].date, "unpadded">>]

\* df.index.strftime('%Y-%m-%d').tolist()
df_dates(df) == [i \in DOMAIN df |-> strftime(df[i].date)]

\* list.index: the first position of x in list l.
index(l, x) == CHOOSE i \in DOMAIN l : l[i] = x /\ \A j \in 1 .. (i - 1) : l[j] # x

\* Lines 176-189: the record lookup returns from the row of date_str.
lookup_row(symbol, date_str, df) ==
    LET date_data == df[index(df_dates(df), date_str)]
    IN  [symbol |-> symbol,
         date   |-> date_str,
         open   |-> date_data.open,
         high   |-> date_data.high,
         low    |-> date_data.low,
         close  |-> date_data.close,
         volume |-> date_data.volume]

lookup(symbol, date, api_key, r1, r2) ==
    LET g == get_client(api_key)
    IN  IF ~g.ok THEN Outcome(client, client_api_key, g.err, <<>>)
        ELSE IF strptime(date) = BadDate
        THEN Outcome(g.client, g.client_api_key,
                     Raise("ValueError", "invalid_date"), <<>>)
        ELSE
        LET date_str == strftime(strptime(date))
            compact == get_daily_time_series(g.client, symbol, "compact", r1)
        IN  IF ~compact.out.ok
            THEN Outcome(compact.client, g.client_api_key, compact.out, compact.log)
            ELSE IF date_str \in Range(df_dates(compact.out.value))
            THEN Outcome(compact.client, g.client_api_key,
                         Return(lookup_row(symbol, date_str, compact.out.value)),
                         compact.log)
            ELSE
            LET full == get_daily_time_series(compact.client, symbol, "full",
                            IF compact.log = <<>> THEN r1 ELSE r2)
                log == compact.log \o full.log
            IN  IF ~full.out.ok
                THEN Outcome(full.client, g.client_api_key, full.out, log)
                ELSE IF date_str \notin Range(df_dates(full.out.value))
                THEN Outcome(full.client, g.client_api_key,
                             Raise("ValueError", "no_data"), log)
                ELSE Outcome(full.client, g.client_api_key,
                             Return(lookup_row(symbol, date_str, full.out.value)),
                             log)

\* Mutant: the boundary is exclusive.
outputsize_for_exclusive(n) == IF n < RecentLimit THEN "compact" ELSE "full"

\* outputsize = "compact" if n <= 100 else "full"
outputsize_for(n) == IF n <= RecentLimit THEN "compact" ELSE "full"

\* Mutant: a window longer than the frame selects nothing.
head_exact(df, n) ==
    IF n >= 0
    THEN (IF n <= Len(df) THEN SubSeq(df, 1, n) ELSE <<>>)
    ELSE SubSeq(df, 1, Len(df) + n)

\* df.head(n): the first n rows; all but the last -n rows when n < 0.
head(df, n) ==
    IF n >= 0
    THEN SubSeq(df, 1, IF n < Len(df) THEN n ELSE Len(df))
    ELSE SubSeq(df, 1, Len(df) + n)

\* df_subset["low"].min() on a non-empty frame.
low_min(df) == CHOOSE x \in {df[i].low : i \in DOMAIN df} :
                   \A i \in DOMAIN df : x <= df[i].low

\* df_subset["high"].max() on a non-empty frame.
high_max(df) == CHOOSE x \in {df[i].high : i \in DOMAIN df} :
                    \A i \in DOMAIN df : x >= df[i].high

\* Mutant: the last row holding the minimum.
low_idxmin_last(df) ==
    df[CHOOSE i \in DOMAIN df :
          /\ \A j \in DOMAIN df : df[i].low <= df[j].low
          /\ \A j \in (i + 1) .. Len(df) : df[j].low # df[i].low].date

\* df_subset["low"].idxmin(): the index label of the first row holding the
\* minimum.
low_idxmin(df) ==
    df[CHOOSE i \in DOMAIN df :
          /\ \A j \in DOMAIN df : df[i].low <= df[j].low
          /\ \A j \in 1 .. (i - 1) : df[j].low # df[i].low].date

\* Mutant: the last row holding the maximum.
high_idxmax_last(df) ==
    df[CHOOSE i \in DOMAIN df :
          /\ \A j \in DOMAIN df : df[i].high >= df[j].high
          /\ \A j \in (i + 1) .. Len(df) : df[j].high # df[i].high].date

\* df_subset["high"].idxmax(): the index label of the first row holding the
\* maximum.
high_idxmax(df) ==
    df[CHOOSE i \in DOMAIN df :
          /\ \A j \in DOMAIN df : df[i].high >= df[j].high
          /\ \A j \in 1 .. (i - 1) : df[j].high # df[i].high].date

\* f"last {n} trading days"
period(n) == <<"last", n, "trading days">>

\* Mutant: the window is cut out of the cached frame in place.
get_min_truncating(symbol, n, api_key, r1) ==
    LET g == get_client(api_key)
    IN  IF ~g.ok THEN Outcome(client, client_api_key, g.err, <<>>)
        ELSE
        LET got == get_daily_time_series(g.client, symbol, outputsize_for(n), r1)
        IN  IF ~got.out.ok
            THEN Outcome(got.client, g.client_api_key, got.out, got.log)
            ELSE
            LET df_subset == head(got.out.value, n)
                cut == [got.client EXCEPT
                           !.cache[cache_key(symbol, outputsize_for(n))] = df_subset]
            IN  IF df_subset = <<>>
                THEN Outcome(cut, g.client_api_key,
                             Raise("ValueError", "empty_window"), got.log)
                ELSE Outcome(cut, g.client_api_key,
                             Return([symbol    |-> upper(symbol),
                                     min_price |-> low_min(df_subset),
                                     date      |-> strftime(low_idxmin(df_subset)),
                                     period    |-> period(n)]),
                             got.log)

\* Mutant: the period names the number of rows the window held.
get_min_rows_used(symbol, n, api_key, r1) ==
    LET g == get_client(api_key)
    IN  IF ~g.ok THEN Outcome(client, client_api_key, g.err, <<>>)
        ELSE
        LET got == get_daily_time_series(g.client, symbol, outputsize_for(n), r1)
        IN  IF ~got.out.ok
            THEN Outcome(got.client, g.client_api_key, got.out, got.log)
            ELSE
            LET df_subset == head(got.out.value, n)
            IN  IF df_subset = <<>>
                THEN Outcome(got.client, g.client_api_key,
                             Raise("ValueError", "empty_window"), got.log)
                ELSE Outcome(got.client, g.client_api_key,
                             Return([symbol    |-> upper(symbol),
                                     min_price |-> low_min(df_subset),
                                     date      |-> strftime(low_idxmin(df_subset)),
                                     period    |-> period(Len(df_subset))]),
                             got.log)

get_min(symbol, n, api_key, r1) ==
    LET g == get_client(api_key)
    IN  IF ~g.ok THEN Outcome(client, client_api_key, g.err, <<>>)
        ELSE
        LET got == get_daily_time_series(g.client, symbol, outputsize_for(n), r1)
        IN  IF ~got.out.ok
            THEN Outcome(got.client, g.client_api_key, got.out, got.log)
            ELSE
            LET df_subset == head(got.out.value, n)
            IN  IF df_subset = <<>>
                THEN \* idxmin of an empty column raises ValueError
                     Outcome(got.client, g.client_api_key,
                             Raise("ValueError", "empty_window"), got.log)
                ELSE Outcome(got.client, g.client_api_key,
                             Return([symbol    |-> upper(symbol),
                                     min_price |-> low_min(df_subset),
                                     date      |-> strftime(low_idxmin(df_subset)),
                                     period    |-> period(n)]),
                             got.log)

\* Mutant: a constructor failure leaves the module without an adapter.
get_max_unbinding(symbol, n, api_key, r1) ==
    LET g == get_client(api_key)
    IN  IF ~g.ok THEN Outcome(NoClient, None, g.err, <<>>)
        ELSE
        LET got == get_daily_time_series(g.client, symbol, outputsize_for(n), r1)
        IN  IF ~got.out.ok
            THEN Outcome(got.client, g.client_api_key, got.out, got.log)
            ELSE
            LET df_subset == head(got.out.value, n)
            IN  IF df_subset = <<>>
                THEN Outcome(got.client, g.client_api_key,
                             Raise("ValueError", "empty_window"), got.log)
                ELSE Outcome(got.client, g.client_api_key,
                             Return([symbol    |-> upper(symbol),
                                     max_price |-> high_max(df_subset),
                                     date      |-> strftime(high_idxmax(df_subset)),
                                     period    |-> period(n)]),
                             got.log)

get_max(symbol, n, api_key, r1) ==
    LET g == get_client(api_key)
    IN  IF ~g.ok THEN Outcome(client, client_api_key, g.err, <<>>)
        ELSE
        LET got == get_daily_time_series(g.client, symbol, outputsize_for(n), r1)
        IN  IF ~got.out.ok
            THEN Outcome(got.client, g.client_api_key, got.out, got.log)
            ELSE
            LET df_subset == head(got.out.value, n)
            IN  IF df_subset = <<>>
                THEN \* idxmax of an empty column raises ValueError
                     Outcome(got.client, g.client_api_key,
                             Raise("ValueError", "empty_window"), got.log)
                ELSE Outcome(got.client, g.client_api_key,
                             Return([symbol    |-> upper(symbol),
                                     max_price |-> high_max(df_subset),
                                     date      |-> strftime(high_idxmax(df_subset)),
                                     period    |-> period(n)]),
                             got.log)

----------------------------------------------------------------------------
(* The caller.  A call is observed until the caller forgets it; while it   *)
(* is observed the only call that may follow is the same call again, so    *)
(* that two consecutive identical calls can be compared.  Every sequence   *)
(* of calls is a behaviour: forgetting changes nothing of the program.     *)

NoDate == <<0, "none">>

NoQuery == [op |-> "none", symbol |-> <<>>, date |-> NoDate, n |-> 0,
            api_key |-> None]

LookupQuery(symbol, date, api_key) ==
    [op |-> "lookup", symbol |-> symbol, date |-> date, n |-> 0,
     api_key |-> api_key]

WindowQuery(op, symbol, n, api_key) ==
    [op |-> op, symbol |-> symbol, date |-> NoDate, n |-> n, api_key |-> api_key]

NoResult == [ok |-> FALSE, exc |-> "none", site |-> "none"]

\* No caller is inside get_daily_time_series between two steps.
NoThreads == <<>>

MayCall(q) == query = NoQuery \/ query = q

\* The answers the provider may give to the i-th request of a call that,
\* run so far, issued the requests of dry.
Answers(dry, i, R) == IF Len(dry.fetches) >= i THEN R ELSE {Unasked}

Finish(q, o) ==
    /\ client' = o.client
    /\ client_api_key' = o.client_api_key
    /\ query' = q
    /\ result' = o.result
    /\ fetches' = o.fetches
    /\ fresh' = (DOMAIN client.cache = {})
    /\ UNCHANGED <<env, threads>>

Lookup(symbols, dates, keys, R) ==
    \E symbol \in symbols, date \in dates, api_key \in keys :
      /\ MayCall(LookupQuery(symbol, date, api_key))
      /\ \E r1 \in Answers(lookup(symbol, date, api_key, Unasked, Unasked), 1, R) :
           \E r2 \in Answers(lookup(symbol, date, api_key, r1, Unasked), 2, R) :
             Finish(LookupQuery(symbol, date, api_key),
                    lookup(symbol, date, api_key, r1, r2))

GetMin(symbols, ns, keys, R) ==
    \E symbol \in symbols, n \in ns, api_key \in keys :
      /\ MayCall(WindowQuery("get_min", symbol, n, api_key))
      /\ \E r1 \in Answers(get_min(symbol, n, api_key, Unasked), 1, R) :
           Finish(WindowQuery("get_min", symbol, n, api_key),
                  get_min(symbol, n, api_key, r1))

GetMax(symbols, ns, keys, R) ==
    \E symbol \in symbols, n \in ns, api_key \in keys :
      /\ MayCall(WindowQuery("get_max", symbol, n, api_key))
      /\ \E r1 \in Answers(get_max(symbol, n, api_key, Unasked), 1, R) :
           Finish(WindowQuery("get_max", symbol, n, api_key),
                  get_max(symbol, n, api_key, r1))

Forget ==
    /\ query # NoQuery
    /\ query' = NoQuery
    /\ result' = NoResult
    /\ fetches' = <<>>
    /\ fresh' = TRUE
    /\ UNCHANGED <<env, client, client_api_key, threads>>

----------------------------------------------------------------------------
(* The cache slice: two spellings of one symbol, every kind of credential, *)
(* every date string, the window lengths around the boundary; a bar is     *)
(* determined by its day and its five fields differ.                       *)

Symbols == {<<"A", "B">>, <<"a", "b">>}

ApiKeys == {None, "", "E", "K"}

EnvKeys == {None, "E"}

Dates == 1 .. MaxDate

DateStrings == {<<d, f>> : d \in Dates, f \in {"iso", "unpadded"}} \cup {<<1, "junk">>}

Windows == {-1, 0} \cup (1 .. MaxN) \cup {RecentLimit, RecentLimit + 1}

Quote == [d \in Dates |-> {RawBar(5 * d + 1, 5 * d + 3, 5 * d, 5 * d + 2, 5 * d + 4)}]

Provider == Responses(Payloads(Dates, Quote))

Init ==
    /\ env \in EnvKeys
    /\ client = NoClient
    /\ client_api_key = None
    /\ query = NoQuery
    /\ result = NoResult
    /\ fetches = <<>>
    /\ fresh = TRUE
    /\ threads = NoThreads

LookupCall == Lookup(Symbols, DateStrings, ApiKeys, Provider)

GetMinCall == GetMin(Symbols, Windows, ApiKeys, Provider)

GetMaxCall == GetMax(Symbols, Windows, ApiKeys, Provider)

Next == LookupCall \/ GetMinCall \/ GetMaxCall \/ Forget

Spec == Init /\ [][Next]_vars

----------------------------------------------------------------------------
(* The window slice: one symbol, one credential, get_min and get_max on    *)
(* the compact series, whose bars take every low and high of a few price   *)
(* levels, so that extrema tie.                                            *)

WinSymbols == {<<"a", "b">>}

WinKeys == {"K"}

WinWindows == (-1 .. (WinDates + 1)) \cup {RecentLimit}

WinQuote ==
    [d \in 1 .. WinDates |->
        {RawBar(p[1], p[2], p[1], p[2], p[1] + p[2]) :
            p \in {q \in (1 .. WinLevels) \X (1 .. WinLevels) : q[1] <= q[2]}}]

WinProvider == Responses(Payloads(1 .. WinDates, WinQuote))

InitWindow ==
    /\ env = None
    /\ client = NoClient
    /\ client_api_key = None
    /\ query = NoQuery
    /\ result = NoResult
    /\ fetches = <<>>
    /\ fresh = TRUE
    /\ threads = NoThreads

GetMinWindow == GetMin(WinSymbols, WinWindows, WinKeys, WinProvider)

GetMaxWindow == GetMax(WinSymbols, WinWindows, WinKeys, WinProvider)

NextWindow == GetMinWindow \/ GetMaxWindow \/ Forget

SpecWindow == InitWindow /\ [][NextWindow]_vars

----------------------------------------------------------------------------
(* The spelling slice: the call observed may also be made again with the   *)
(* symbol in another letter case; one credential, well-formed dates, one   *)
(* window length for each resolution.                                      *)

\* The call observed is made again, the symbol spelled differently.
CallAgain(symbols, R) ==
    /\ query # NoQuery
    /\ \E symbol \in symbols :
         /\ symbol # query.symbol
         /\ upper(symbol) = upper(query.symbol)
         /\ \/ /\ query.op = "lookup"
               /\ \E r1 \in Answers(lookup(symbol, query.date, query.api_key,
                                            Unasked, Unasked), 1, R) :
                    \E r2 \in Answers(lookup(symbol, query.date, query.api_key,
                                              r1, Unasked), 2, R) :
                      Finish([query EXCEPT !.symbol = symbol],
                             lookup(symbol, query.date, query.api_key, r1, r2))
            \/ /\ query.op = "get_min"
               /\ \E r1 \in Answers(get_min(symbol, query.n, query.api_key,
                                             Unasked), 1, R) :
                    Finish([query EXCEPT !.symbol = symbol],
                           get_min(symbol, query.n, query.api_key, r1))
            \/ /\ query.op = "get_max"
               /\ \E r1 \in Answers(get_max(symbol, query.n, query.api_key,
                                             Unasked), 1, R) :
                    Finish([query EXCEPT !.symbol = symbol],
                           get_max(symbol, query.n, query.api_key, r1))

SpellKeys == {None, "K"}

SpellDates == {Iso(d) : d \in Dates}

SpellWindows == {1, RecentLimit + 1}

InitSpelling ==
    /\ env = "E"
    /\ client = NoClient
    /\ client_api_key = None
    /\ query = NoQuery
    /\ result = NoResult
    /\ fetches = <<>>
    /\ fresh = TRUE
    /\ threads = NoThreads

LookupSpelling == Lookup(Symbols, SpellDates, SpellKeys, Provider)

GetMinSpelling == GetMin(Symbols, SpellWindows, SpellKeys, Provider)

GetMaxSpelling == GetMax(Symbols, SpellWindows, SpellKeys, Provider)

CallAgainSpelling == CallAgain(Symbols, Provider)

NextSpelling ==
    \/ LookupSpelling \/ GetMinSpelling \/ GetMaxSpelling
    \/ CallAgainSpelling \/ Forget

SpecSpelling == InitSpelling /\ [][NextSpelling]_vars

----------------------------------------------------------------------------
(* get_daily_time_series line by line, for callers that run it at the same *)
(* time on one adapter.  The frame under construction is local to its      *)
(* caller; the cache is the adapter's.                                     *)

\* The orders in which a JSON object may list its keys.
Orders(labels) ==
    {o \in [1 .. Cardinality(labels) -> labels] :
        \A i, j \in 1 .. Cardinality(labels) : o[i] = o[j] => i = j}

\* Lines 83-93: DataFrame.from_dict(orient="index") and the rename: one row
\* per label in the order of the payload, every value still a string.
from_dict(payload, order) ==
    [i \in DOMAIN order |->
        [date   |-> order[i],
         open   |-> payload[order[i]]["1. open"],
         high   |-> payload[order[i]]["2. high"],
         low    |-> payload[order[i]]["3. low"],
         close  |-> payload[order[i]]["4. close"],
         volume |-> payload[order[i]]["5. volume"]]]

\* Lines 95-98: the columns converted to numbers.
numeric_columns(df) ==
    [i \in DOMAIN df |->
        [df[i] EXCEPT !.open = to_numeric(@), !.high = to_numeric(@),
                      !.low = to_numeric(@), !.close = to_numeric(@),
                      !.volume = to_numeric(@)]]

\* Line 101: the index converted to dates.
datetime_index(df) == [i \in DOMAIN df |-> [df[i] EXCEPT !.date = to_datetime(@)]]

\* Line 102: df.sort_index(ascending=False, inplace=True)
sort_inplace(df) == sort_index_desc(Range(df))

IdleThread ==
    [pc |-> "idle", symbol |-> <<>>, outputsize |-> "none", df |-> <<>>,
     out |-> NoResult]

\* Mutant: the frame is put in the cache before it is sorted, and a sorted
\* copy replaces it afterwards.
sort_index_published(c, th) ==
    [client |-> [c EXCEPT !.cache =
                    (cache_key(th.symbol, th.outputsize) :> th.df) @@ c.cache],
     thread |-> [th EXCEPT !.df = sort_inplace(@), !.pc = "store"]]

\* Line 102: the local frame is sorted; the adapter is untouched.
sort_index(c, th) ==
    [client |-> c, thread |-> [th EXCEPT !.df = sort_inplace(@), !.pc = "store"]]

\* A caller enters get_daily_time_series.
Begin(t, symbols, sizes) ==
    /\ threads[t].pc = "idle"
    /\ \E symbol \in symbols, outputsize \in sizes :
         threads' = [threads EXCEPT ![t] =
                        [pc |-> "check", symbol |-> symbol,
                         outputsize |-> outputsize, df |-> <<>>, out |-> NoResult]]
    /\ UNCHANGED <<env, client, client_api_key, query, result, fetches, fresh>>

\* Lines 52-55: the cache is consulted; a hit returns the stored frame.
CheckCache(t) ==
    LET th == threads[t]
        k  == cache_key(th.symbol, th.outputsize)
    IN  /\ th.pc = "check"
        /\ threads' = [threads EXCEPT ![t] =
               IF k \in DOMAIN client.cache
               THEN [th EXCEPT !.pc = "idle", !.out = Return(client.cache[k])]
               ELSE [th EXCEPT !.pc = "request"]]
        /\ UNCHANGED <<env, client, client_api_key, query, result, fetches, fresh>>

\* Lines 68-93: the request; an unusable answer raises, a series is built
\* into a local frame.
Request(t, R) ==
    LET th == threads[t]
    IN  /\ th.pc = "request"
        /\ \E resp \in R :
             IF ~FetchError(resp).ok
             THEN /\ threads' = [threads EXCEPT ![t] =
                         [th EXCEPT !.pc = "idle", !.out = FetchError(resp)]]
                  /\ UNCHANGED client
             ELSE \E order \in Orders(DOMAIN resp.payload) :
                    /\ threads' = [threads EXCEPT ![t] =
                           [th EXCEPT !.df = from_dict(resp.payload, order),
                                      !.pc = "to_numeric"]]
                    /\ UNCHANGED client
        /\ UNCHANGED <<env, client_api_key, query, result, fetches, fresh>>

\* Lines 95-101: the local frame is converted and indexed by date, one
\* statement at a time.
Normalise(t) ==
    LET th == threads[t]
    IN  /\ th.pc \in {"to_numeric", "to_datetime"}
        /\ threads' = [threads EXCEPT ![t] =
               IF th.pc = "to_numeric"
               THEN [th EXCEPT !.df = numeric_columns(@), !.pc = "to_datetime"]
               ELSE [th EXCEPT !.df = datetime_index(@), !.pc = "sort_index"]]
        /\ UNCHANGED <<env, client, client_api_key, query, result, fetches, fresh>>

\* Line 102: the local frame is sorted newest first.
SortIndex(t) ==
    LET th == threads[t]
    IN  /\ th.pc = "sort_index"
        /\ threads' = [threads EXCEPT ![t] = sort_index(client, th).thread]
        /\ client' = sort_index(client, th).client
        /\ UNCHANGED <<env, client_api_key, query, result, fetches, fresh>>

\* Line 105: self._cache[cache_key] = df
Store(t) ==
    LET th == threads[t]
    IN  /\ th.pc = "store"
        /\ client' = [client EXCEPT !.cache =
               (cache_key(th.symbol, th.outputsize) :> th.df) @@ client.cache]
        /\ threads' = [threads EXCEPT ![t] = [th EXCEPT !.pc = "return"]]
        /\ UNCHANGED <<env, client_api_key, query, result, fetches, fresh>>

\* Line 107: return df
ReturnFrame(t) ==
    LET th == threads[t]
    IN  /\ th.pc = "return"
        /\ threads' = [threads EXCEPT ![t] =
               [th EXCEPT !.pc = "idle", !.out = Return(th.df), !.df = <<>>]]
        /\ UNCHANGED <<env, client, client_api_key, query, result, fetches, fresh>>

\* The concurrent slice: two callers on one bound adapter, two spellings
\* of one symbol, the compact series.
Callers == {"c1", "c2"}

ThreadSizes == {"compact"}

InitThreads ==
    /\ env = None
    /\ client = [live |-> TRUE, api_key |-> "K", cache |-> EmptyMap]
    /\ client_api_key = "K"
    /\ query = NoQuery
    /\ result = NoResult
    /\ fetches = <<>>
    /\ fresh = TRUE
    /\ threads = [t \in Callers |-> IdleThread]

BeginStep == \E t \in Callers : Begin(t, Symbols, ThreadSizes)

CheckCacheStep == \E t \in Callers : CheckCache(t)

RequestStep == \E t \in Callers : Request(t, Provider)

NormaliseStep == \E t \in Callers : Normalise(t)

SortStep == \E t \in Callers : SortIndex(t)

StoreStep == \E t \in Callers : Store(t)

ReturnStep == \E t \in Callers : ReturnFrame(t)

NextThreads ==
    \/ BeginStep \/ CheckCacheStep \/ RequestStep
    \/ NormaliseStep \/ SortStep \/ StoreStep \/ ReturnStep

SpecThreads == InitThreads /\ [][NextThreads]_vars

----------------------------------------------------------------------------
(* Vocabulary of the properties.                                           *)

IsCall(op) == query.op = op

\* The call got past _get_client.
AdapterObtained == result.ok \/ result.site # "api_key_required"

\* The day a lookup asked for, when its date string is well formed.
AskedDay == strptime(query.date)

\* The provider answered the request with a series.
Answered(req) == req.response.kind = "ok" /\ DOMAIN req.response.payload # {}

\* The series the provider answered the request with holds the day.
Holds(req, day) == Answered(req) /\ Iso(day) \in DOMAIN req.response.payload

\* The series the provider answered the request with lacks the day.
Lacks(req, day) == Answered(req) /\ Iso(day) \notin DOMAIN req.response.payload

IsRequest(req, symbol, outputsize) ==
    req.symbol = symbol /\ req.outputsize = outputsize

\* The bar of a day as the payload states it.
QuotedBar(payload, day) ==
    LET raw == payload[Iso(day)]
    IN  [date   |-> Iso(day),
         open   |-> to_numeric(raw["1. open"]),
         high   |-> to_numeric(raw["2. high"]),
         low    |-> to_numeric(raw["3. low"]),
         close  |-> to_numeric(raw["4. close"]),
         volume |-> to_numeric(raw["5. volume"])]

\* The bar a lookup returned.
ReturnedBar(v) ==
    [date |-> v.date, open |-> v.open, high |-> v.high, low |-> v.low,
     close |-> v.close, volume |-> v.volume]

ColdLookup ==
    IsCall("lookup") /\ fresh /\ AskedDay # BadDate /\ AdapterObtained

\* A cold lookup asks for the compact series first; when that series lacks
\* the day it asks for the full series second, and for nothing else.
Escalates ==
    /\ Len(fetches) >= 1
    /\ IsRequest(fetches[1], query.symbol, "compact")
    /\ Lacks(fetches[1], AskedDay) =>
         /\ Len(fetches) = 2
         /\ IsRequest(fetches[2], query.symbol, "full")
    /\ ~Lacks(fetches[1], AskedDay) => Len(fetches) = 1

----------------------------------------------------------------------------
\* C1: from an empty cache, a lookup of a date that the Recent series lacks
\* and the Full series holds issues exactly one Recent request and then
\* exactly one Full request, and returns the bar the Full series states for
\* that date.
C1_RecentThenFull ==
    ColdLookup =>
      /\ Escalates
      /\ (Lacks(fetches[1], AskedDay) /\ Holds(fetches[2], AskedDay)) =>
           /\ result.ok
           /\ ReturnedBar(result.value) =
                  QuotedBar(fetches[2].response.payload, AskedDay)

C1_Witness ==
    /\ ColdLookup
    /\ Len(fetches) = 2
    /\ Lacks(fetches[1], AskedDay)
    /\ Holds(fetches[2], AskedDay)
    /\ result.ok

\* C2: a lookup of a date the Recent series holds returns the open, high,
\* low, close and volume of the bar with that date and issues no Full
\* request, whatever the cache held before the call.  The Recent series is
\* the one the adapter holds for the symbol once the call has ensured it.
C2_RecentHit ==
    LET k == <<upper(query.symbol), "compact">>
    IN  (/\ IsCall("lookup") /\ AskedDay # BadDate /\ AdapterObtained
         /\ k \in DOMAIN client.cache
         /\ \E i \in DOMAIN client.cache[k] : client.cache[k][i].date = AskedDay)
        => /\ result.ok
           /\ \E i \in DOMAIN client.cache[k] :
                 /\ client.cache[k][i].date = AskedDay
                 /\ ReturnedBar(result.value) =
                      [date   |-> Iso(AskedDay),
                       open   |-> client.cache[k][i].open,
                       high   |-> client.cache[k][i].high,
                       low    |-> client.cache[k][i].low,
                       close  |-> client.cache[k][i].close,
                       volume |-> client.cache[k][i].volume]
           /\ \A j \in DOMAIN fetches : fetches[j].outputsize # "full"

C2_Witness ==
    /\ IsCall("lookup") /\ ~fresh /\ result.ok
    /\ fetches = <<>>
    /\ <<upper(query.symbol), "full">> \in DOMAIN client.cache
    /\ AskedDay = 1
    /\ Len(client.cache[<<upper(query.symbol), "compact">>]) = MaxDate

\* C3: from an empty cache, a lookup of a date that both the Recent and the
\* Full series lack issues exactly one Recent and exactly one Full request
\* and raises the ValueError "No data available".
C3_NotFound ==
    ColdLookup =>
      /\ Escalates
      /\ (Lacks(fetches[1], AskedDay) /\ Lacks(fetches[2], AskedDay)) =>
           result = Raise("ValueError", "no_data")

C3_Witness ==
    /\ ColdLookup
    /\ Len(fetches) = 2
    /\ Lacks(fetches[1], AskedDay)
    /\ Lacks(fetches[2], AskedDay)
    /\ result = Raise("ValueError", "no_data")

\* C4: get_min and get_max request the compact series only when n <= 100
\* and the full series only when n > 100: n = 100 asks for compact, n = 101
\* for full, and a call issues at most one request.
C4_Resolution ==
    (IsCall("get_min") \/ IsCall("get_max")) =>
      /\ Len(fetches) <= 1
      /\ \A i \in DOMAIN fetches :
           /\ fetches[i].symbol = query.symbol
           /\ query.n <= 100 => fetches[i].outputsize = "compact"
           /\ query.n > 100 => fetches[i].outputsize = "full"
      /\ (fresh /\ AdapterObtained) => Len(fetches) = 1

C4_Witness ==
    /\ IsCall("get_max") /\ query.n = 100 /\ result.ok
    /\ Len(fetches) = 1 /\ fetches[1].outputsize = "compact"
    /\ <<upper(query.symbol), "full">> \in DOMAIN fetches[1].seen

----------------------------------------------------------------------------
\* The cache key a request is for.
KeyOf(req) == <<upper(req.symbol), req.outputsize>>

\* The provider gives the two calls the same answer to the same request.
SameAnswers(f, g) ==
    \A i \in DOMAIN f, j \in DOMAIN g :
        (f[i].symbol = g[j].symbol /\ f[i].outputsize = g[j].outputsize)
            => f[i].response = g[j].response

\* The step is the call observed in query a second time.
Repeated == query # NoQuery /\ query' = query

\* C5 as stated: a query issued twice in a row from an empty cache against
\* an unchanged source yields identical results and exactly one request in
\* total across the two calls.  Stated for the queries that succeed.
C5_OneFetchInTotal ==
    [][(Repeated /\ fresh /\ result.ok /\ SameAnswers(fetches, fetches'))
          => /\ result' = result
             /\ Len(fetches) + Len(fetches') = 1]_vars

\* The requests a first call from an empty cache issues when every request
\* is answered with a series.
ExpectedFetches ==
    IF ~AdapterObtained \/ (IsCall("lookup") /\ AskedDay = BadDate) THEN 0
    ELSE IF IsCall("lookup") /\ Len(fetches) >= 1 /\ Lacks(fetches[1], AskedDay)
    THEN 2
    ELSE 1

\* C5 as amended: a query issued twice in a row from an empty cache, every
\* request of the first call being answered with a series, yields identical
\* results; the second call issues no request; the first call issued one
\* request, or two (compact, then full) when it is a lookup of a date the
\* Recent series lacks, or none when it failed before any request.
C5_SecondFromCache ==
    [][(Repeated /\ fresh /\ \A i \in DOMAIN fetches : Answered(fetches[i]))
          => /\ result' = result
             /\ fetches' = <<>>
             /\ Len(fetches) = ExpectedFetches]_vars

C5_Witness ==
    /\ IsCall("lookup") /\ ~fresh /\ result.ok /\ fetches = <<>>
    /\ <<upper(query.symbol), "full">> \in DOMAIN client.cache
    /\ \A i \in DOMAIN client.cache[<<upper(query.symbol), "compact">>] :
          client.cache[<<upper(query.symbol), "compact">>][i].date # AskedDay

\* The first cache key a call consults, when it gets as far as consulting.
FirstKey(q) ==
    <<upper(q.symbol),
      IF q.op = "lookup" \/ q.n <= 100 THEN "compact" ELSE "full">>

\* C6: once an adapter is bound, a call that passes a credential different
\* from the adapter's replaces the adapter and discards every cached
\* series: whatever the cache holds after the call was requested anew by
\* that call, also the key the call itself consults first.
C6_SwapDiscards ==
    [][(/\ client.live
        /\ query'.op # "none"
        /\ Truthy(query'.api_key)
        /\ query'.api_key # client.api_key)
          => /\ client'.live
             /\ client'.api_key = query'.api_key
             /\ \A k \in DOMAIN client'.cache :
                   \E i \in DOMAIN fetches' :
                       KeyOf(fetches'[i]) = k /\ Answered(fetches'[i])
             /\ (/\ FirstKey(query') \in DOMAIN client.cache
                 /\ ~(query'.op = "lookup" /\ strptime(query'.date) = BadDate))
                   => /\ fetches' # <<>>
                      /\ KeyOf(fetches'[1]) = FirstKey(query')]_vars

C6_Witness ==
    /\ IsCall("get_min") /\ ~fresh /\ result.ok
    /\ query.api_key = "K" /\ client.api_key = "K"
    /\ Len(fetches) = 1
    /\ fetches[1].seen = EmptyMap
    /\ DOMAIN client.cache = {KeyOf(fetches[1])}

\* C7: a request that fails (transport failure, non-success status,
\* provider error message, missing time-series payload, and likewise a body
\* that is not JSON or an empty series) ends the call with the exception of
\* the fetch and leaves the cache as it was when the request was issued: no
\* entry is installed under the requested key.
C7_FailedFetch ==
    \A i \in DOMAIN fetches :
        ~Answered(fetches[i]) =>
            /\ i = Len(fetches)
            /\ ~result.ok
            /\ result.site \notin
                   {"api_key_required", "invalid_date", "no_data", "empty_window"}
            /\ fetches[i].response.kind = "transport"
                   => result = Raise("RequestException", "request_failed")
            /\ fetches[i].response.kind = "status"
                   => result = Raise("Exception", "status_code")
            /\ fetches[i].response.kind = "error_message"
                   => result = Raise("Exception", "error_message")
            /\ fetches[i].response.kind = "no_time_series"
                   => result = Raise("Exception", "unexpected_format")
            /\ client.cache = fetches[i].seen
            /\ KeyOf(fetches[i]) \notin DOMAIN client.cache

C7_Witness ==
    /\ IsCall("lookup")
    /\ Len(fetches) = 2
    /\ Answered(fetches[1])
    /\ fetches[2].response.kind = "no_time_series"
    /\ DOMAIN client.cache = {KeyOf(fetches[1])}
    /\ ~result.ok

C9_ArgumentsChecked ==
    (/\ AdapterObtained
     /\ \/ IsCall("lookup") /\ AskedDay = BadDate
        \/ (IsCall("get_min") \/ IsCall("get_max")) /\ query.n <= 0)
      => /\ ~result.ok
         /\ result.exc = "ValueError"
         /\ fetches = <<>>

\* C10: for n >= 1 get_min returns as min_price the smallest low among the
\* first min(n, length) rows of the newest-first series, and as date the
\* date of the first of those rows that attains it, the most recent date
\* among tied minima.
C10_Minimum ==
    LET k == <<upper(query.symbol), IF query.n <= 100 THEN "compact" ELSE "full">>
    IN  (IsCall("get_min") /\ query.n >= 1 /\ k \in DOMAIN client.cache) =>
          LET df == client.cache[k]
              m  == IF query.n < Len(df) THEN query.n ELSE Len(df)
          IN  /\ result.ok
              /\ \A j \in 1 .. m : result.value.min_price <= df[j].low
              /\ \E i \in 1 .. m :
                    /\ df[i].low = result.value.min_price
                    /\ Iso(df[i].date) = result.value.date
                    /\ \A j \in 1 .. m :
                          df[j].low = result.value.min_price
                              => j >= i /\ df[j].date <= df[i].date

C10_Witness ==
    LET k == <<upper(query.symbol), "compact">>
    IN  /\ IsCall("get_min") /\ query.n = 2 /\ result.ok
        /\ k \in DOMAIN client.cache
        /\ Len(client.cache[k]) = 3
        /\ client.cache[k][1].low = 2
        /\ client.cache[k][2].low = 2
        /\ client.cache[k][3].low = 1
        /\ result.value.min_price = 2
        /\ result.value.date = Iso(client.cache[k][1].date)

\* C11: for n >= 1 get_max returns as max_price the largest high among the
\* first min(n, length) rows of the newest-first series, and as date the
\* date of the first of those rows that attains it, the most recent date
\* among tied maxima.
C11_Maximum ==
    LET k == <<upper(query.symbol), IF query.n <= 100 THEN "compact" ELSE "full">>
    IN  (IsCall("get_max") /\ query.n >= 1 /\ k \in DOMAIN client.cache) =>
          LET df == client.cache[k]
              m  == IF query.n < Len(df) THEN query.n ELSE Len(df)
          IN  /\ result.ok
              /\ \A j \in 1 .. m : result.value.max_price >= df[j].high
              /\ \E i \in 1 .. m :
                    /\ df[i].high = result.value.max_price
                    /\ Iso(df[i].date) = result.value.date
                    /\ \A j \in 1 .. m :
                          df[j].high = result.value.max_price
                              => j >= i /\ df[j].date <= df[i].date

C11_Witness ==
    LET k == <<upper(query.symbol), "compact">>
    IN  /\ IsCall("get_max") /\ query.n = 2 /\ result.ok
        /\ k \in DOMAIN client.cache
        /\ Len(client.cache[k]) = 3
        /\ client.cache[k][1].high = 1
        /\ client.cache[k][2].high = 1
        /\ client.cache[k][3].high = 2
        /\ result.value.max_price = 1
        /\ result.value.date = Iso(client.cache[k][1].date)

\* The series a window call selects.
WindowKey == <<upper(query.symbol), outputsize_for(query.n)>>

\* The call is a window call whose selected series holds at least one row
\* and fewer than n rows.
ShortSeries ==
    /\ IsCall("get_min") \/ IsCall("get_max")
    /\ WindowKey \in DOMAIN client.cache
    /\ Len(client.cache[WindowKey]) >= 1
    /\ Len(client.cache[WindowKey]) < query.n

\* C12: when the selected series holds at least one row and fewer than n
\* rows, get_min and get_max return a result, issue no request beyond the
\* one that obtained the series (none for the other resolution, none when
\* the series was cached), and the extremum is taken over every row of the
\* series.
C12_WindowShrinks ==
    ShortSeries =>
      LET df == client.cache[WindowKey]
      IN  /\ result.ok
          /\ Len(fetches) <= 1
          /\ \A i \in DOMAIN fetches :
                /\ KeyOf(fetches[i]) = WindowKey
                /\ DataFrame(fetches[i].response.payload) = df
          /\ IsCall("get_min") =>
                /\ \A j \in DOMAIN df : result.value.min_price <= df[j].low
                /\ \E j \in DOMAIN df :
                      /\ df[j].low = result.value.min_price
                      /\ Iso(df[j].date) = result.value.date
          /\ IsCall("get_max") =>
                /\ \A j \in DOMAIN df : result.value.max_price >= df[j].high
                /\ \E j \in DOMAIN df :
                      /\ df[j].high = result.value.max_price
                      /\ Iso(df[j].date) = result.value.date

C12_Witness ==
    /\ ShortSeries
    /\ IsCall("get_min") /\ query.n = WinDates + 1 /\ result.ok
    /\ fetches = <<>>
    /\ Len(client.cache[WindowKey]) = WinDates
    /\ client.cache[WindowKey][1].low = 2
    /\ client.cache[WindowKey][WinDates].low = 1
    /\ result.value.min_price = 1
    /\ result.value.date = Iso(client.cache[WindowKey][WinDates].date)

----------------------------------------------------------------------------
(* Exception classes.  The code raises built-in classes only; a caller     *)
(* tells failures apart with except clauses, which match a class and its   *)
(* subclasses.                                                             *)

\* The direct base of each class the operations raise: response.json()
\* raises a JSONDecodeError, which is a ValueError; requests.get raises a
\* RequestException, which is an OSError.
BaseOf(cls) ==
    CASE cls = "JSONDecodeError"  -> "ValueError"
      [] cls = "ValueError"       -> "Exception"
      [] cls = "KeyError"         -> "LookupError"
      [] cls = "LookupError"      -> "Exception"
      [] cls = "RequestException" -> "OSError"
      [] cls = "OSError"          -> "Exception"
      [] OTHER                    -> "BaseException"

\* issubclass(cls, base)
RECURSIVE issubclass(_, _)
issubclass(cls, base) ==
    \/ cls = base
    \/ cls # "BaseException" /\ issubclass(BaseOf(cls), base)

\* Line 174: what lookup raises for a date absent from both series.
NotFoundError == Raise("ValueError", "no_data")

\* The places that raise because a request failed or its answer could not
\* be used, and because an argument is malformed.
SourceErrorSites ==
    {"request_failed", "status_code", "not_json", "error_message",
     "unexpected_format", "empty_time_series"}

ArgumentErrorSites == {"invalid_date", "empty_window"}

\* C13 as stated: the failure of a lookup for a date absent from both
\* series is of a different kind than a failed fetch and than a malformed
\* argument: no failure of those two groups is an instance of the class
\* raised for the absent date, so that a handler for the latter catches
\* neither.
C13_NotFoundDistinct ==
    (~result.ok /\ result.site \in SourceErrorSites \cup ArgumentErrorSites)
        => ~issubclass(result.exc, NotFoundError.exc)

\* C14: when no adapter is bound, the environment holds no key and the
\* call passes none (None or the empty string), every operation raises the
\* ValueError of the constructor without issuing a request, and the
\* module-level adapter and credential stay unbound.
C14_NoCredential ==
    [][(/\ ~client.live
        /\ ~Truthy(env)
        /\ query'.op # "none"
        /\ ~Truthy(query'.api_key))
          => /\ result' = Raise("ValueError", "api_key_required")
             /\ fetches' = <<>>
             /\ client' = NoClient
             /\ client_api_key' = None]_vars

C14_Witness ==
    /\ IsCall("get_max") /\ query.api_key = None /\ env = None
    /\ result = Raise("ValueError", "api_key_required")
    /\ ~client.live /\ client_api_key = None
    /\ fetches = <<>>

\* C15: every series the cache holds is sorted by date strictly descending,
\* without duplicate dates: each row is later than the row after it.  The
\* provider's payload is a JSON object keyed by zero-padded dates, so its
\* labels are distinct days.
C15_SortedDescending ==
    \A k \in DOMAIN client.cache :
        LET df == client.cache[k]
        IN  \A i \in 1 .. (Len(df) - 1) : df[i].date > df[i + 1].date

C15_Witness ==
    /\ <<<<"A", "B">>, "compact">> \in DOMAIN client.cache
    /\ <<<<"A", "B">>, "full">> \in DOMAIN client.cache
    /\ Len(client.cache[<<<<"A", "B">>, "compact">>]) = MaxDate
    /\ Len(client.cache[<<<<"A", "B">>, "full">>]) = MaxDate
    /\ client.cache[<<<<"A", "B">>, "full">>][1].date = MaxDate

\* C16 as stated: for every spelling of the symbol, the symbol field of
\* the result of lookup, get_min and get_max is the upper-case form.
C16_SymbolCanonical ==
    (query.op # "none" /\ result.ok) => result.value.symbol = upper(query.symbol)

\* C17: no request is repeated within a call: the requests of one call are
\* for different keys, each absent from the cache when requested; lookup
\* issues at most two (the compact one before the full one), get_min and
\* get_max at most one; a request that fails is the last of its call and
\* the call raises that request's exception.
C17_NoRetry ==
    /\ \A i, j \in DOMAIN fetches : KeyOf(fetches[i]) = KeyOf(fetches[j]) => i = j
    /\ \A i \in DOMAIN fetches :
          /\ KeyOf(fetches[i]) \notin DOMAIN fetches[i].seen
          /\ fetches[i].symbol = query.symbol
          /\ ~FetchError(fetches[i].response).ok
                => i = Len(fetches) /\ result = FetchError(fetches[i].response)
    /\ IsCall("lookup") =>
          /\ Len(fetches) <= 2
          /\ Len(fetches) = 2 =>
                fetches[1].outputsize = "compact" /\ fetches[2].outputsize = "full"
    /\ (IsCall("get_min") \/ IsCall("get_max")) => Len(fetches) <= 1

C17_Witness ==
    /\ IsCall("lookup")
    /\ Len(fetches) = 2
    /\ Answered(fetches[1])
    /\ fetches[2].response.kind = "transport"
    /\ result = Raise("RequestException", "request_failed")

\* A complete series: the frame of some payload, converted, indexed by
\* date and sorted newest first.
Complete(df) == \E p \in Payloads(Dates, Quote) : p # EmptyMap /\ df = DataFrame(p)

\* C18: with two callers inside get_daily_time_series at the same time, in
\* every interleaving of their statements the entry under a key is absent
\* or a complete series, and every frame a caller is handed from the cache
\* or returns is complete.
C18_NoPartialEntry ==
    /\ \A k \in DOMAIN client.cache : Complete(client.cache[k])
    /\ \A t \in DOMAIN threads :
          (threads[t].pc = "idle" /\ threads[t].out.ok)
              => Complete(threads[t].out.value)

\* One caller was handed the entry of a key while the other, having missed
\* the same key earlier, still holds its own unconverted frame for it.
C18_Witness ==
    \E t, u \in DOMAIN threads :
        /\ t # u
        /\ threads[t].pc = "idle" /\ threads[t].out.ok
        /\ Len(threads[t].out.value) = MaxDate
        /\ threads[u].pc = "to_numeric"
        /\ cache_key(threads[u].symbol, threads[u].outputsize)
               \in DOMAIN client.cache
        /\ Len(threads[u].df) = MaxDate
        /\ threads[u].df[1].date = Iso(1)

\* The lookup observed issued a compact request that was answered with a
\* series and then a full request that failed.
FullFailed ==
    /\ IsCall("lookup")
    /\ Len(fetches) = 2
    /\ fetches[1].outputsize = "compact" /\ Answered(fetches[1])
    /\ fetches[2].outputsize = "full" /\ ~Answered(fetches[2])

\* C19: a lookup whose compact request is answered and whose full request
\* then fails raises the exception of the full request; the compact series
\* is cached and no full entry is installed; the same lookup made again
\* issues one request only, for the full series.
C19_FullFailure ==
    [][(FullFailed /\ Repeated)
          => /\ result = FetchError(fetches[2].response)
             /\ ~result.ok
             /\ <<upper(query.symbol), "compact">> \in DOMAIN client.cache
             /\ client.cache[<<upper(query.symbol), "compact">>]
                    = DataFrame(fetches[1].response.payload)
             /\ <<upper(query.symbol), "full">> \notin DOMAIN client.cache
             /\ Len(fetches') = 1
             /\ IsRequest(fetches'[1], query.symbol, "full")]_vars

C19_Witness ==
    /\ IsCall("lookup") /\ ~fresh
    /\ Len(fetches) = 1
    /\ fetches[1].outputsize = "full"
    /\ fetches[1].response.kind = "status"
    /\ DOMAIN fetches[1].seen = {<<upper(query.symbol), "compact">>}
    /\ client.cache = fetches[1].seen
    /\ result = Raise("Exception", "status_code")

\* C20: the period of every result of get_min and get_max reads "last n
\* trading days" with the n the caller passed, also when the series holds
\* fewer than n rows.
C20_PeriodNamesRequest ==
    ((IsCall("get_min") \/ IsCall("get_max")) /\ result.ok)
        => result.value.period = <<"last", query.n, "trading days">>

C20_Witness ==
    /\ ShortSeries
    /\ IsCall("get_min") /\ query.n = RecentLimit /\ result.ok
    /\ Len(client.cache[WindowKey]) = 2
    /\ result.value.period = <<"last", RecentLimit, "trading days">>

\* C21 as stated: a lookup that fails because its date is malformed leaves
\* the bound adapter, the bound credential and every cached series as they
\* were before the call, whatever credential it was called with.
C21_ArgumentFailureFrame ==
    [][(query'.op = "lookup" /\ strptime(query'.date) = BadDate)
          => /\ ~result'.ok
             /\ client' = client
             /\ client_api_key' = client_api_key]_vars

\* C22 as stated: a call on a live adapter that omits the credential, or
\* passes the value the adapter is using (also when the adapter took that
\* value from the environment), keeps the adapter and every cached series.
C22_SameCredentialKeeps ==
    [][(/\ client.live
        /\ query'.op # "none"
        /\ query'.api_key = None \/ query'.api_key = client.api_key)
          => /\ client'.api_key = client.api_key
             /\ \A k \in DOMAIN client.cache :
                   /\ k \in DOMAIN client'.cache
                   /\ client'.cache[k] = client.cache[k]]_vars

\* C23: when a call on a live adapter asks for a replacement and the
\* constructor finds no usable credential, the call raises the
\* constructor's ValueError without a request and the adapter, the recorded
\* credential and every cached series stay as they were; a call that omits
\* the credential keeps the adapter, leaves every cached series in place
\* and requests none of the cached keys.
C23_FailedSwapKeeps ==
    [][/\ (/\ client.live
           /\ query'.op # "none"
           /\ result' = Raise("ValueError", "api_key_required"))
             => /\ client' = client
                /\ client_api_key' = client_api_key
                /\ fetches' = <<>>
       /\ (client.live /\ query'.op # "none" /\ query'.api_key = None)
             => /\ client'.api_key = client.api_key
                /\ client_api_key' = client_api_key
                /\ \A k \in DOMAIN client.cache :
                      /\ k \in DOMAIN client'.cache
                      /\ client'.cache[k] = client.cache[k]
                      /\ \A i \in DOMAIN fetches' : KeyOf(fetches'[i]) # k]_vars

C23_Witness ==
    /\ IsCall("get_max") /\ query.api_key = ""
    /\ result = Raise("ValueError", "api_key_required")
    /\ client.live /\ client.api_key = "K" /\ client_api_key = "K"
    /\ Cardinality(DOMAIN client.cache) = 2

\* The call made by the step keeps the adapter it found and gets as far as
\* consulting the cache.
ConsultsCache ==
    /\ client.live
    /\ query'.op # "none"
    /\ client_api_key' = client_api_key
    /\ result'.ok \/ result'.site \notin {"api_key_required", "invalid_date"}

\* C24: the compact and the full entry of a symbol are independent.  When
\* only the full series is cached, a lookup and a get_min or get_max with
\* n <= 100 request the compact series first; and a call that installs the
\* series of one resolution leaves the entry of the other as it was.
C24_ResolutionsIndependent ==
    [][ConsultsCache =>
          LET compact == <<upper(query'.symbol), "compact">>
              full    == <<upper(query'.symbol), "full">>
          IN  /\ (/\ FirstKey(query') = compact
                  /\ compact \notin DOMAIN client.cache
                  /\ full \in DOMAIN client.cache)
                    => /\ fetches' # <<>>
                       /\ IsRequest(fetches'[1], query'.symbol, "compact")
              /\ (compact \in DOMAIN client.cache /\ full \in DOMAIN client'.cache)
                    => client'.cache[compact] = client.cache[compact]
              /\ (full \in DOMAIN client.cache /\ compact \in DOMAIN client'.cache)
                    => client'.cache[full] = client.cache[full]]_vars

C24_Witness ==
    /\ IsCall("get_min") /\ query.n = RecentLimit /\ result.ok
    /\ Len(fetches) = 1
    /\ fetches[1].outputsize = "compact"
    /\ DOMAIN fetches[1].seen = {<<upper(query.symbol), "full">>}
    /\ client.cache[<<upper(query.symbol), "full">>]
          = fetches[1].seen[<<upper(query.symbol), "full">>]
    /\ Len(client.cache[<<upper(query.symbol), "full">>]) = MaxDate
    /\ Len(client.cache[<<upper(query.symbol), "compact">>]) = 1

\* The step is the call observed in query made again with the symbol in
\* another letter case.
Respelled ==
    /\ query # NoQuery
    /\ query'.symbol # query.symbol
    /\ [query' EXCEPT !.symbol = query.symbol] = query

\* C25: the cache key does not depend on the letter case of the symbol.
\* After a query that succeeded, the same query with the symbol in another
\* letter case issues no request and returns the same values, taken from
\* the same series; and whatever spelling installed an entry, a call whose
\* first key is cached does not request that key.
C25_CaseInsensitiveKey ==
    [][/\ (Respelled /\ result.ok)
             => /\ fetches' = <<>>
                /\ result'.ok
                /\ [result'.value EXCEPT !.symbol = upper(@)]
                       = [result.value EXCEPT !.symbol = upper(@)]
                /\ client' = client
       /\ (ConsultsCache /\ FirstKey(query') \in DOMAIN client.cache)
             => \A i \in DOMAIN fetches' : KeyOf(fetches'[i]) # FirstKey(query')]_vars

C25_Witness ==
    /\ IsCall("lookup") /\ query.symbol = <<"A", "B">> /\ ~fresh
    /\ result.ok /\ fetches = <<>>
    /\ result.value.symbol = <<"A", "B">>
    /\ DOMAIN client.cache = {<<<<"A", "B">>, "compact">>}

\* The call made by the step left the adapter it found in place.
AdapterKept == client.live /\ client'.live /\ client_api_key' = client_api_key

\* C26: the operations only read the cached series.  A call that keeps the
\* adapter leaves every cached series as it was, bar for bar and in the
\* same order; the only change to the cache is a new entry under a key that
\* was absent, holding the frame of the series the call was answered with;
\* the frame stays as installed also when the call that fetched it used a
\* shorter window of it or failed afterwards.
C26_ReadOnly ==
    [][/\ (AdapterKept /\ query'.op # "none")
             => /\ \A k \in DOMAIN client.cache :
                      /\ k \in DOMAIN client'.cache
                      /\ client'.cache[k] = client.cache[k]
                /\ \A k \in DOMAIN client'.cache \ DOMAIN client.cache :
                      \E i \in DOMAIN fetches' :
                          /\ KeyOf(fetches'[i]) = k
                          /\ Answered(fetches'[i])
                          /\ client'.cache[k]
                                 = DataFrame(fetches'[i].response.payload)
       /\ query'.op # "none"
             => \A i \in DOMAIN fetches' :
                   Answered(fetches'[i])
                       => client'.cache[KeyOf(fetches'[i])]
                              = DataFrame(fetches'[i].response.payload)]_vars

C26_Witness ==
    /\ IsCall("get_min") /\ query.n = 1 /\ ~fresh
    /\ result.ok /\ fetches = <<>>
    /\ Len(client.cache[<<upper(query.symbol), "compact">>]) = MaxDate
    /\ result.value.date = Iso(MaxDate)
    /\ <<upper(query.symbol), "full">> \in DOMAIN client.cache

====
